---- MODULE Spec2Model ----
(***************************************************************************)
(* The weather pipeline of khacbac/weather-forecast: the BigQuery table of *)
(* readings, the model artifact weather_model.pkl, the inference path      *)
(* (predict_only.py: load_latest_data, engineer_features,                  *)
(* predict_next_temperature) and the training path (train_model.py:        *)
(* _load_and_prepare, train_model, load_model).                            *)
(*                                                                         *)
(* A nullable float is a sequence: <<>> is null/NaN/None, <<v>> is v.      *)
(* A timestamp is a whole number of hours since 1970-01-01T00:00 UTC.      *)
(***************************************************************************)
EXTENDS Integers, Sequences, FiniteSets, TLC

VARIABLES
    store,      \* the BigQuery table, rows in timestamp order
    artifact,   \* the file at MODEL_PATH: [state, model]
    pc,         \* inference invocation: position of the caller
    pFault,     \* the fault injected into the inference query
    pRaw,       \* df_raw, the result of load_latest_data
    pFeat,      \* df_feat, first result of engineer_features
    pClean,     \* df_clean, second result of engineer_features
    pSeen,      \* what tm.load_model met at MODEL_PATH in this invocation
    pResult,    \* (current_temp, predicted_temp, status) of predict_next_temperature
    pLimit,     \* the limit given to load_latest_data
    pAfterTrained, \* history: a train_model call had returned a model when predict began
    tc,         \* training invocation: position of train_model.py __main__
    tFault,     \* the fault injected into the training query
    tRaw,       \* the query result inside _load_and_prepare
    tFeat,      \* df_feat of _load_and_prepare
    tClean,     \* df_clean of _load_and_prepare
    tEverEnough, \* history: some train_model call was given more than two rows
    tLimit,     \* the limit given to _load_and_prepare
    tWrites,    \* joblib.dump calls of the current train_model call
    tLast,      \* history: the model the most recent returned train_model fitted
    sp,         \* push_weather.py (single shot): position of main
    sFetch,     \* outcome of its fetch_weather call
    sAppend,    \* outcome of its push_to_bigquery call
    sFetches,   \* fetch_weather calls of this invocation
    sAppends,   \* push_to_bigquery calls of this invocation
    sData,      \* the current conditions fetch_weather returned, if any
    sRow,       \* the row this invocation appended, if any
    sExit,      \* exit status of the process, once it has exited
    lp,         \* real-weather.py (loop): position of the script
    lFetch,     \* outcome of the fetch_weather call of its current cycle
    lAppend,    \* outcome of the load job of its current cycle
    lData,      \* the current conditions fetch_weather returned, if any
    lRow,       \* the row its current cycle appended, if any
    lExit,      \* exit status of the process, once it has exited
    environ,    \* os.environ of the process that uses config_loader
    files,      \* content of the config files that process can name
    config_instance,  \* config_loader._config_instance
    cBuilds,    \* history: Config objects constructed so far
    cFirst,     \* history: the first Config object get_config returned
    cReturned,  \* the object the latest get_config call returned
    cRead       \* the latest accessor read and what it returned

pvars == <<pc, pFault, pRaw, pFeat, pClean, pSeen, pResult, pLimit, pAfterTrained>>
tvars == <<tc, tFault, tRaw, tFeat, tClean, tEverEnough, tLimit, tWrites, tLast>>

svars == <<sp, sFetch, sAppend, sFetches, sAppends, sData, sRow, sExit>>
lvars == <<lp, lFetch, lAppend, lData, lRow, lExit>>
ivars == <<svars, lvars>>

cvars == <<environ, files, config_instance, cBuilds, cFirst, cReturned, cRead>>

vars == <<store, artifact, pvars, tvars, ivars, cvars>>

----------------------------------------------------------------------------
(* Bounds of the model *)

MaxStore == 4
SmallLimit == 2
LargeLimit == 4
FirstHour == 22
MaxAppends == 2

(* Program constants *)

MinRows == 2
HoursPerDay == 24

----------------------------------------------------------------------------
(* Values *)

Null == <<>>
Some(v) == <<v>>
Val(o) == o[1]

\* What one fetch of the weather API can put in a row: every field is
\* nullable in the API's JSON and in the table.
Measurements ==
    { [temperature |-> Some(20), humidity |-> Some(60), wind_speed |-> Some(5)],
      [temperature |-> Null, humidity |-> Some(60), wind_speed |-> Some(5)],
      [temperature |-> Some(21), humidity |-> Null, wind_speed |-> Some(5)],
      [temperature |-> Some(21), humidity |-> Some(60), wind_speed |-> Null] }

Limits == {SmallLimit, LargeLimit}
\* The outcome of a store query: it answers, or it raises (the store is
\* unreachable, or its response cannot be converted: both are exceptions
\* raised inside the same block).
Faults == {"none", "unreachable"}

Reading(i, m) ==
    [timestamp |-> FirstHour + i - 1, temperature |-> m.temperature,
     humidity |-> m.humidity, wind_speed |-> m.wind_speed]

NoModel == [X |-> <<>>, y |-> <<>>]
Absent == [state |-> "absent", model |-> NoModel]
Partial == [state |-> "partial", model |-> NoModel]
Complete(m) == [state |-> "complete", model |-> m]

NoResult == [current_temp |-> Null, predicted_temp |-> Null, status |-> "none"]

----------------------------------------------------------------------------
(* Sequences *)

Reverse(s) == [i \in 1..Len(s) |-> s[Len(s) + 1 - i]]
Take(s, n) == SubSeq(s, 1, IF n < Len(s) THEN n ELSE Len(s))

RECURSIVE InsertByTimestamp(_, _)
InsertByTimestamp(r, s) ==
    IF s = <<>> THEN <<r>>
    ELSE IF r.timestamp < Head(s).timestamp THEN <<r>> \o s
    ELSE <<Head(s)>> \o InsertByTimestamp(r, Tail(s))

RECURSIVE SortValues(_)
\* df.sort_values('timestamp').reset_index(drop=True)
SortValues(df) ==
    IF df = <<>> THEN <<>>
    ELSE InsertByTimestamp(df[Len(df)], SortValues(SubSeq(df, 1, Len(df) - 1)))

----------------------------------------------------------------------------
(* The store queries *)

\* SELECT ... ORDER BY timestamp DESC LIMIT limit
QueryDesc(limit) == Take(Reverse(store), limit)

\* SELECT ... ORDER BY timestamp ASC LIMIT limit
QueryAsc(limit) == Take(store, limit)

LoadLatestDataNoCatch(limit, fault) ==
    IF fault # "none"
    THEN [raised |-> TRUE, df |-> <<>>]
    ELSE [raised |-> FALSE, df |-> SortValues(QueryDesc(limit))]

\* load_latest_data: every exception of the query is caught and becomes an
\* empty frame.
LoadLatestData(limit, fault) ==
    IF fault # "none"
    THEN [raised |-> FALSE, df |-> <<>>]
    ELSE [raised |-> FALSE, df |-> SortValues(QueryDesc(limit))]

----------------------------------------------------------------------------
(* Feature engineering *)

Hour(ts) == ts % HoursPerDay
\* pandas dayofweek: Monday is 0; 1970-01-01 was a Thursday
DayOfWeek(ts) == ((ts \div HoursPerDay) + 3) % 7

ShiftTargetBackward(df, i) == IF i > 1 THEN df[i - 1].temperature ELSE Null

\* df["temperature"].shift(-1)
ShiftTarget(df, i) == IF i < Len(df) THEN df[i + 1].temperature ELSE Null

AddFeatures(df) ==
    [i \in 1..Len(df) |->
        [timestamp |-> df[i].timestamp, temperature |-> df[i].temperature,
         humidity |-> df[i].humidity, wind_speed |-> df[i].wind_speed,
         hour |-> Hour(df[i].timestamp), day_of_week |-> DayOfWeek(df[i].timestamp),
         target_temp |-> ShiftTarget(df, i)]]

\* The columns that can hold a null: the timestamp is always stamped by the
\* pusher, so hour and day_of_week are never null.
NullableColumns == {"temperature", "humidity", "wind_speed", "target_temp"}

NoNullTargetOnly(row) == row.target_temp # Null
NoNull(row) == \A c \in NullableColumns : row[c] # Null

\* df.dropna()
DropNa(df) == SelectSeq(df, NoNull)

\* predict_only.engineer_features
EngineerFeatures(df) ==
    IF df = <<>> THEN [df |-> df, df_clean |-> df]
    ELSE [df |-> AddFeatures(df), df_clean |-> DropNa(AddFeatures(df))]

----------------------------------------------------------------------------
(* The model artifact and the regression *)

\* os.path.exists(model_path)
ModelExists(a) == a.state # "absent"

\* the columns the regression reads: ["temperature", "hour", "humidity"]
Features(row) == <<row.temperature, Some(row.hour), row.humidity>>

HasNaN(x) == \E i \in 1..Len(x) : x[i] = Null

\* LinearRegression().fit(X, y): ordinary least squares is a function of the
\* training data, and the fitted model is represented by that data.
Fit(df_clean) ==
    [X |-> [i \in 1..Len(df_clean) |-> Features(df_clean[i])],
     y |-> [i \in 1..Len(df_clean) |-> df_clean[i].target_temp]]

\* model.predict(x)[0]: the model's output for x, kept as the application
\* of the model to the feature vector.
Eval(m, x) == [model |-> m, x |-> x]

\* df.tail(1)
Tail1(df) == df[Len(df)]

----------------------------------------------------------------------------
(* predict_next_temperature *)

PredictDecisionModelFirst(df_clean, exists) ==
    IF ~exists THEN "no_model"
    ELSE IF df_clean = <<>> THEN "no_data"
    ELSE "load"

\* The order of the checks: "load" means tm.load_model goes on to joblib.load.
PredictDecision(df_clean, exists) ==
    IF df_clean = <<>> THEN "no_data"
    ELSE IF ~exists THEN "no_model"
    ELSE "load"

Raised == [current_temp |-> Null, predicted_temp |-> Null, status |-> "raised"]

\* The lines after the model is loaded; sklearn's predict raises ValueError
\* on a NaN in its input.
PredictOn(df, m) ==
    LET latest_now == Tail1(df)
        x == Features(latest_now)
    IN  IF HasNaN(x) THEN Raised
        ELSE [current_temp |-> Some(Val(latest_now.temperature)),
              predicted_temp |-> Some(Eval(m, x)), status |-> "ok"]

----------------------------------------------------------------------------
(* train_model.py *)

\* _load_and_prepare: the query is not inside a try, so its exception
\* leaves the function.
LoadAndPrepare(limit, fault) ==
    IF fault # "none"
    THEN [raised |-> TRUE, raw |-> <<>>, df_feat |-> <<>>, df_clean |-> <<>>]
    ELSE LET df == QueryAsc(limit)
         IN  IF df = <<>>
             THEN [raised |-> FALSE, raw |-> df, df_feat |-> df, df_clean |-> df]
             ELSE [raised |-> FALSE, raw |-> df, df_feat |-> AddFeatures(df),
                   df_clean |-> DropNa(AddFeatures(df))]

InsufficientDataOffByOne(df_clean) == Len(df_clean) < MinRows

\* train_model: if len(df_clean) <= 2: return None
InsufficientData(df_clean) == Len(df_clean) <= MinRows

----------------------------------------------------------------------------
(* Initial state: a table the pusher can have filled, no artifact yet,     *)
(* no invocation started.                                                  *)

NeverTrained == [ok |-> FALSE, model |-> NoModel]

(* Configuration: config_loader.py *)

\* The sections and leaves of the built-in defaults the model follows.
Sections == {"gcp", "api"}
LeavesOf(section) ==
    IF section = "gcp" THEN {"project_id", "dataset_id"} ELSE {"timeout"}
LeafPaths == UNION {{<<sec, leaf>> : leaf \in LeavesOf(sec)} : sec \in Sections}

\* The environment variables _apply_env_overrides reads for those leaves.
EnvVars == {"GCP_PROJECT_ID", "BIGQUERY_DATASET"}
\* unset, set to the empty string, or set to a value
EnvValues == {Null, Some(""), Some("env")}

\* A value of the configuration: a scalar or a dict of values.
Leaf(v) == [dict |-> FALSE, items |-> <<>>, v |-> v]
Dict(items) == [dict |-> TRUE, items |-> items, v |-> ""]

\* config.json beside the script, and a path given as config_file
DefaultPath == "config.json"
Paths == {DefaultPath, "alt.json"}

\* What a config file can hold: nothing (no file), text that is not JSON,
\* or an object that sets some leaves of some sections.
FileAbsent == [kind |-> "absent", leaves |-> {}]
FileMalformed == [kind |-> "malformed", leaves |-> {}]
FileJson(leaves) == [kind |-> "json", leaves |-> leaves]
\* an empty object, part of one section, parts of both, every leaf
FileLeafSets ==
    {{}, {<<"gcp", "project_id">>},
     {<<"gcp", "dataset_id">>, <<"api", "timeout">>}, LeafPaths}
FileContents ==
    {FileAbsent, FileMalformed} \cup {FileJson(leaves) : leaves \in FileLeafSets}

\* json.load(f)
JsonLoad(content) ==
    [sec \in {p[1] : p \in content.leaves} |->
        Dict([leaf \in {p[2] : p \in {q \in content.leaves : q[1] = sec}} |->
                 Leaf("file")])]

Defaults == [sec \in Sections |-> Dict([leaf \in LeavesOf(sec) |-> Leaf("default")])]

DeepMergeShallow(base, override) ==
    [key \in DOMAIN base \cup DOMAIN override |->
        IF key \in DOMAIN override THEN override[key] ELSE base[key]]

RECURSIVE DeepMerge(_, _)
DeepMerge(base, override) ==
    [key \in DOMAIN base \cup DOMAIN override |->
        IF key \notin DOMAIN override THEN base[key]
        ELSE IF key \in DOMAIN base /\ base[key].dict /\ override[key].dict
             THEN Dict(DeepMerge(base[key].items, override[key].items))
             ELSE override[key]]

\* d[key] = value on a python dict
SetItem(d, key, value) ==
    [k \in DOMAIN d \cup {key} |-> IF k = key THEN value ELSE d[k]]

\* os.getenv(var) as a condition: set and not empty
Truthy(x) == x # Null /\ Val(x) # ""

\* if os.getenv(var): self._config[section][leaf] = os.getenv(var)
Override(config, env, var, section, leaf) ==
    IF Truthy(env[var])
    THEN SetItem(config, section,
                 Dict(SetItem(config[section].items, leaf, Leaf(Val(env[var])))))
    ELSE config

ApplyEnvOverrides(config, env) ==
    Override(Override(config, env, "GCP_PROJECT_ID", "gcp", "project_id"),
             env, "BIGQUERY_DATASET", "gcp", "dataset_id")

LoadConfig(content, env) ==
    ApplyEnvOverrides(IF content.kind = "json"
                      THEN DeepMerge(Defaults, JsonLoad(content))
                      ELSE Defaults,
                      env)

\* Config.get(section, leaf); None when the key is missing
Get(config, section, leaf) ==
    IF section \notin DOMAIN config THEN "None"
    ELSE IF ~config[section].dict THEN "None"
    ELSE IF leaf \notin DOMAIN config[section].items THEN "None"
    ELSE config[section].items[leaf].v

\* Config(config_file)
Config(config_file) ==
    LET path == IF config_file = Null THEN DefaultPath ELSE Val(config_file)
    IN  [id |-> cBuilds + 1,
         config_file |-> path,
         config |-> LoadConfig(files[path], environ)]

NeedsInstanceOrNamedFile(config_file) ==
    config_instance = Null \/ config_file # Null

\* if _config_instance is None
NeedsInstance(config_file) == config_instance = Null

\* No pipeline invocation has started and there is no artifact.
PipelineInit ==
    /\ artifact = Absent
    /\ pc = "idle"
    /\ pFault = "none"
    /\ pRaw = <<>>
    /\ pFeat = <<>>
    /\ pClean = <<>>
    /\ pSeen = "none"
    /\ pResult = NoResult
    /\ pLimit = LargeLimit
    /\ pAfterTrained = FALSE
    /\ tc = "idle"
    /\ tFault = "none"
    /\ tRaw = <<>>
    /\ tFeat = <<>>
    /\ tClean = <<>>
    /\ tEverEnough = FALSE
    /\ tLimit = LargeLimit
    /\ tWrites = 0
    /\ tLast = NeverTrained

\* No ingestion process has started.
IngestInit ==
    /\ sp = "idle"
    /\ sFetch = "none"
    /\ sAppend = "none"
    /\ sFetches = 0
    /\ sAppends = 0
    /\ sData = Null
    /\ sRow = Null
    /\ sExit = Null
    /\ lp = "idle"
    /\ lFetch = "none"
    /\ lAppend = "none"
    /\ lData = Null
    /\ lRow = Null
    /\ lExit = Null

\* A process that has not called get_config: no override is set, no config
\* file exists.
ConfigInit ==
    /\ environ = [var \in EnvVars |-> Null]
    /\ files = [path \in Paths |-> FileAbsent]
    /\ config_instance = Null
    /\ cBuilds = 0
    /\ cFirst = Null
    /\ cReturned = Null
    /\ cRead = Null

Init ==
    /\ \E n \in 0..MaxStore :
         \E f \in [1..n -> Measurements] :
            store = [i \in 1..n |-> Reading(i, f[i])]
    /\ PipelineInit
    /\ IngestInit
    /\ ConfigInit

----------------------------------------------------------------------------
(* The inference path *)

PIdle == pc \in {"idle", "exited", "returned"}

\* df_raw = load_latest_data(limit)
CallLoadLatestData(limit, fault) ==
    /\ PIdle
    /\ LET r == LoadLatestData(limit, fault)
       IN  /\ pRaw' = r.df
           /\ pc' = IF r.raised THEN "returned" ELSE "loaded"
           /\ pResult' = IF r.raised THEN Raised ELSE NoResult
    /\ pFault' = fault
    /\ pLimit' = limit
    /\ pFeat' = <<>>
    /\ pClean' = <<>>
    /\ pSeen' = "none"
    /\ pAfterTrained' = FALSE
    /\ UNCHANGED <<cvars, ivars, store, artifact, tvars>>

\* the callers' "if df_raw.empty": the script exits 1, the API answers
\* with an error status; engineer_features is not called.
NoDataExit ==
    /\ pc = "loaded"
    /\ pRaw = <<>>
    /\ pc' = "exited"
    /\ UNCHANGED <<cvars, ivars, store, artifact, pFault, pRaw, pFeat, pClean, pSeen, pResult,
                   pLimit, pAfterTrained, tvars>>

\* df_feat, df_clean = engineer_features(df_raw)
CallEngineerFeatures ==
    /\ pc = "loaded"
    /\ LET r == EngineerFeatures(pRaw)
       IN  /\ pFeat' = r.df
           /\ pClean' = r.df_clean
    /\ pc' = "engineered"
    /\ UNCHANGED <<cvars, ivars, store, artifact, pFault, pRaw, pSeen, pResult, pLimit, pAfterTrained, tvars>>

\* predict_next_temperature(df_feat, df_clean) up to os.path.exists
PredictBegin ==
    /\ pc = "engineered"
    /\ LET d == PredictDecision(pClean, ModelExists(artifact))
       IN  /\ pc' = IF d = "load" THEN "loading" ELSE "returned"
           /\ pResult' = IF d = "load" THEN NoResult
                         ELSE [current_temp |-> Null, predicted_temp |-> Null, status |-> d]
           /\ pSeen' = IF d = "no_data" THEN "none"
                       ELSE IF d = "no_model" THEN "absent"
                       ELSE "exists"
    /\ pAfterTrained' = tLast.ok
    /\ UNCHANGED <<cvars, ivars, store, artifact, pFault, pRaw, pFeat, pClean, pLimit, tvars>>

\* joblib.load(model_path) and the rest of predict_next_temperature
PredictLoad ==
    /\ pc = "loading"
    /\ pSeen' = artifact.state
    /\ pResult' = IF artifact.state = "complete"
                  THEN PredictOn(pFeat, artifact.model)
                  ELSE Raised
    /\ pc' = "returned"
    /\ UNCHANGED <<cvars, ivars, store, artifact, pFault, pRaw, pFeat, pClean, pLimit, pAfterTrained, tvars>>

----------------------------------------------------------------------------
(* The training path *)

TIdle == tc \in {"idle", "raised", "exited", "insufficient", "trained", "interrupted"}

\* train_model.py __main__ up to the point where joblib.dump has opened
\* MODEL_PATH for writing, which truncates the file.
TrainMain(limit, fault) ==
    /\ TIdle
    /\ tFault' = fault
    /\ tLimit' = limit
    /\ LET r == LoadAndPrepare(limit, fault)
           called == ~r.raised /\ r.df_feat # <<>>
           writes == called /\ ~InsufficientData(r.df_clean)
       IN  /\ tRaw' = r.raw
           /\ tFeat' = r.df_feat
           /\ tClean' = r.df_clean
           /\ tc' = IF r.raised THEN "raised"
                    ELSE IF r.df_feat = <<>> THEN "exited"
                    ELSE IF InsufficientData(r.df_clean) THEN "insufficient"
                    ELSE "dumping"
           /\ artifact' = IF writes THEN Partial ELSE artifact
           /\ tWrites' = IF writes THEN 1 ELSE 0
           /\ tEverEnough' = (tEverEnough \/ (called /\ Len(r.df_clean) > MinRows))
    /\ UNCHANGED <<cvars, ivars, store, pvars, tLast>>

\* joblib.dump finishes writing and closes the file; train_model returns
TrainDumpEnd ==
    /\ tc = "dumping"
    /\ artifact' = Complete(Fit(tClean))
    /\ tc' = "trained"
    /\ tLast' = [ok |-> TRUE, model |-> Fit(tClean)]
    /\ UNCHANGED <<cvars, ivars, store, pvars, tFault, tRaw, tFeat, tClean, tEverEnough, tLimit, tWrites>>

\* the training process is killed while joblib.dump is writing
TrainInterrupted ==
    /\ tc = "dumping"
    /\ tc' = "interrupted"
    /\ UNCHANGED <<cvars, ivars, store, artifact, pvars, tFault, tRaw, tFeat, tClean, tEverEnough,
                   tLimit, tWrites, tLast>>

----------------------------------------------------------------------------
(* Ingestion: push_weather.py (single shot) and real-weather.py (loop) *)

\* What the weather endpoint does with one request.
FetchOutcomes == {"ok", "http_error", "network_error", "timeout"}
AppendOutcomes == {"ok", "failed"}

\* row = {"timestamp": utcnow, "city": ..., "temperature": ..., ...}
Row(m) == [city |-> "Danang", temperature |-> m.temperature,
           humidity |-> m.humidity, wind_speed |-> m.wind_speed]

\* The row is appended as a reading: the queries of the pipeline select the
\* timestamp and the three measurements.  WRITE_APPEND of one row stamped with the current instant
AppendRow(m) == Append(store, Reading(Len(store) + 1, m))

\* push_weather.fetch_weather: requests.get(url, timeout=10) and
\* raise_for_status(); every failure is a RequestException, re-raised.
PushFetchResult(outcome) == IF outcome = "ok" THEN "data" ELSE "raised"

ExitStatusAlwaysZero(failed) == 0

\* push_weather.main: return 0 after the push, return 1 in the except
ExitStatus(failed) == IF failed THEN 1 ELSE 0

\* push_weather.main up to the end of fetch_weather
PushFetch(outcome, m) ==
    /\ sp \in {"idle", "exited"}
    /\ sFetch' = outcome
    /\ sFetches' = 1
    /\ sAppends' = 0
    /\ sAppend' = "none"
    /\ sRow' = Null
    /\ IF PushFetchResult(outcome) = "data"
       THEN /\ sp' = "pushing"
            /\ sData' = Some(m)
            /\ sExit' = Null
       ELSE /\ sp' = "exited"
            /\ sData' = Null
            /\ sExit' = Some(ExitStatus(TRUE))
    /\ UNCHANGED <<cvars, store, artifact, pvars, tvars, lvars>>

\* push_to_bigquery(row) and the rest of main
PushAppend(outcome) ==
    /\ sp = "pushing"
    /\ Len(store) < MaxAppends
    /\ sAppend' = outcome
    /\ sAppends' = sAppends + 1
    /\ sp' = "exited"
    /\ IF outcome = "ok"
       THEN /\ store' = AppendRow(Val(sData))
            /\ sRow' = Some(Row(Val(sData)))
            /\ sExit' = Some(ExitStatus(FALSE))
       ELSE /\ store' = store
            /\ sRow' = Null
            /\ sExit' = Some(ExitStatus(TRUE))
    /\ UNCHANGED <<cvars, artifact, pvars, tvars, sFetch, sFetches, sData, lvars>>

\* real-weather.fetch_weather: requests.get(url) with no timeout and no
\* raise_for_status; response.json()['current'] raises on an error body.
LoopFetchResult(outcome) ==
    IF outcome = "ok" THEN "data"
    ELSE IF outcome = "timeout" THEN "hung"
    ELSE "raised"

\* real-weather.py: one cycle of the while loop up to the end of
\* fetch_weather; an exception leaves the loop, is printed by the
\* top-level except, and the script ends normally.
LoopFetch(outcome, m) ==
    /\ lp \in {"idle", "slept"}
    /\ lFetch' = outcome
    /\ lAppend' = "none"
    /\ LET r == LoopFetchResult(outcome)
       IN  /\ lp' = IF r = "data" THEN "pushing"
                    ELSE IF r = "hung" THEN "hung"
                    ELSE "exited"
           /\ lData' = IF r = "data" THEN Some(m) ELSE Null
           /\ lRow' = Null
           /\ lExit' = IF r = "raised" THEN Some(0) ELSE Null
    /\ UNCHANGED <<cvars, store, artifact, pvars, tvars, svars>>

\* the load job of the cycle and time.sleep(300)
LoopAppend(outcome) ==
    /\ lp = "pushing"
    /\ Len(store) < MaxAppends
    /\ lAppend' = outcome
    /\ IF outcome = "ok"
       THEN /\ store' = AppendRow(Val(lData))
            /\ lRow' = Some(Row(Val(lData)))
            /\ lp' = "slept"
            /\ lExit' = Null
       ELSE /\ store' = store
            /\ lRow' = Null
            /\ lp' = "exited"
            /\ lExit' = Some(0)
    /\ UNCHANGED <<cvars, artifact, pvars, tvars, svars, lFetch, lData>>

----------------------------------------------------------------------------
(* Configuration: the process that calls get_config *)

\* get_config(config_file)
GetConfig(config_file) ==
    /\ IF NeedsInstance(config_file)
       THEN /\ config_instance' = Some(Config(config_file))
            /\ cBuilds' = cBuilds + 1
       ELSE /\ config_instance' = config_instance
            /\ cBuilds' = cBuilds
    /\ cReturned' = config_instance'
    /\ cFirst' = IF cFirst = Null THEN config_instance' ELSE cFirst
    /\ UNCHANGED <<environ, files, cRead>>
    /\ UNCHANGED <<store, artifact, pvars, tvars, ivars>>

\* config.get(section, leaf) on the object get_config returned
ReadAccessor(section, leaf) ==
    /\ cReturned # Null
    /\ cRead' = Some([section |-> section, leaf |-> leaf,
                      value |-> Get(Val(cReturned).config, section, leaf)])
    /\ UNCHANGED <<environ, files, config_instance, cBuilds, cFirst, cReturned>>
    /\ UNCHANGED <<store, artifact, pvars, tvars, ivars>>

\* os.environ[var] = value, or the variable is unset
SetEnv(var, value) ==
    /\ environ' = [environ EXCEPT ![var] = value]
    /\ UNCHANGED <<files, config_instance, cBuilds, cFirst, cReturned, cRead>>
    /\ UNCHANGED <<store, artifact, pvars, tvars, ivars>>

\* the config file at path is written, replaced or removed
WriteFile(path, content) ==
    /\ files' = [files EXCEPT ![path] = content]
    /\ UNCHANGED <<environ, config_instance, cBuilds, cFirst, cReturned, cRead>>
    /\ UNCHANGED <<store, artifact, pvars, tvars, ivars>>

----------------------------------------------------------------------------

Next ==
    \/ \E limit \in Limits, fault \in Faults : CallLoadLatestData(limit, fault)
    \/ NoDataExit
    \/ CallEngineerFeatures
    \/ PredictBegin
    \/ PredictLoad
    \/ \E limit \in Limits, fault \in Faults : TrainMain(limit, fault)
    \/ TrainDumpEnd
    \/ TrainInterrupted

Spec == Init /\ [][Next]_vars

\* The ingestion processes filling an empty table.
InitIngest ==
    /\ store = <<>>
    /\ PipelineInit
    /\ IngestInit
    /\ ConfigInit

NextIngest ==
    \/ \E outcome \in FetchOutcomes, m \in Measurements : PushFetch(outcome, m)
    \/ \E outcome \in AppendOutcomes : PushAppend(outcome)
    \/ \E outcome \in FetchOutcomes, m \in Measurements : LoopFetch(outcome, m)
    \/ \E outcome \in AppendOutcomes : LoopAppend(outcome)

SpecIngest == InitIngest /\ [][NextIngest]_vars

\* One process using config_loader, its environment and its config files.
InitConfig ==
    /\ store = <<>>
    /\ PipelineInit
    /\ IngestInit
    /\ ConfigInit

NextConfig ==
    \/ \E config_file \in {Null} \cup {Some(path) : path \in Paths} : GetConfig(config_file)
    \/ \E sec \in Sections : \E leaf \in LeavesOf(sec) : ReadAccessor(sec, leaf)
    \/ \E var \in EnvVars, value \in EnvValues : SetEnv(var, value)
    \/ \E path \in Paths, content \in FileContents : WriteFile(path, content)

SpecConfig == InitConfig /\ [][NextConfig]_vars

----------------------------------------------------------------------------
(* Properties *)

PEngineered == pc \in {"engineered", "loading", "returned"}
PReturned == pc = "returned"
TPrepared == tc \in {"exited", "insufficient", "dumping", "trained", "interrupted"}
TTrainCalled == tc \in {"insufficient", "dumping", "trained", "interrupted"}

Status == pResult.status
TempsAbsent == pResult.current_temp = Null /\ pResult.predicted_temp = Null
TempsPresent == pResult.current_temp # Null /\ pResult.predicted_temp # Null

FullyPopulated(df) ==
    \A i \in 1..Len(df) :
        df[i].temperature # Null /\ df[i].humidity # Null /\ df[i].wind_speed # Null

AsReading(row) ==
    [timestamp |-> row.timestamp, temperature |-> row.temperature,
     humidity |-> row.humidity, wind_speed |-> row.wind_speed]

Rows(df) == {df[i] : i \in 1..Len(df)}

\* C1: every load of the artifact by a reader meets no artifact, or a
\* completely written one (the previous or the new), never a partially
\* written one, whatever the interleaving with a training invocation.
C1_NoPartialLoad == pSeen \in {"none", "absent", "exists", "complete"}

\* C2: predict decides in a fixed order and always returns one of the three
\* statuses: no_data (temperatures absent, store not consulted) for an empty
\* TrainableFrame, else no_model (temperatures absent) for an absent
\* artifact, else ok with both temperatures present.
C2_ThreeStatuses ==
    PReturned =>
        /\ Status \in {"no_data", "no_model", "ok"}
        /\ (pClean = <<>> => Status = "no_data" /\ TempsAbsent /\ pSeen = "none")
        /\ (pClean # <<>> /\ pSeen = "absent" => Status = "no_model" /\ TempsAbsent)
        /\ (pClean # <<>> /\ pSeen \notin {"none", "absent"} => Status = "ok" /\ TempsPresent)

\* C3 as stated: with no artifact, predict returns no_model for every pair
\* of frames, an empty TrainableFrame included.
C3_NoModelRegardless ==
    (PReturned /\ artifact.state = "absent") => Status = "no_model"

\* C3 as amended: with no artifact, predict returns no_model (temperatures
\* absent) for every non-empty TrainableFrame, and no_data for an empty one.
C3_NoModelWhenData ==
    (PReturned /\ artifact.state = "absent") =>
        /\ (pClean # <<>> => Status = "no_model" /\ TempsAbsent)
        /\ (pClean = <<>> => Status = "no_data" /\ TempsAbsent)

C3_Witness ==
    PReturned /\ artifact.state = "absent" /\ pClean # <<>> /\ Status = "no_model"

\* C4: train returns InsufficientData exactly when the TrainableFrame has 2
\* or fewer rows; with 3 or more rows it goes on to write and return the
\* model fitted on that frame.
C4_TrainThreshold ==
    TTrainCalled =>
        /\ (tc = "insufficient" <=> Len(tClean) <= 2)
        /\ (Len(tClean) >= 3 => tc \in {"dumping", "trained", "interrupted"})
        /\ (tc = "trained" => artifact = Complete(Fit(tClean)))

C4_Witness == tc = "trained" /\ Len(tClean) = 3

EngineerPost(raw, feat, clean) ==
    /\ (raw = <<>> => feat = <<>> /\ clean = <<>>)
    /\ (Len(raw) >= 1 /\ FullyPopulated(raw) =>
            /\ Len(feat) = Len(raw)
            /\ \A i \in 1..Len(raw) : AsReading(feat[i]) = raw[i]
            /\ Len(clean) = Len(raw) - 1
            /\ clean = SubSeq(feat, 1, Len(feat) - 1))

\* C5: for a fully populated ascending input of length n >= 1 the
\* FeatureFrame has the n input rows in input order and the TrainableFrame
\* is the FeatureFrame without its last row (n - 1 rows); for an empty input
\* both frames are empty.
C5_FrameLengths ==
    /\ (PEngineered => EngineerPost(pRaw, pFeat, pClean))
    /\ (TPrepared => EngineerPost(tRaw, tFeat, tClean))

C5_Witness ==
    /\ pc = "engineered" /\ Len(pRaw) >= 3 /\ FullyPopulated(pRaw)
    /\ Len(pClean) = Len(pRaw) - 1

NoFieldNull(row) ==
    /\ row.temperature # Null
    /\ row.humidity # Null
    /\ row.wind_speed # Null
    /\ row.target_temp # Null

TargetPost(feat, clean) ==
    /\ \A i \in 1..(Len(feat) - 1) : feat[i].target_temp = feat[i + 1].temperature
    /\ (feat # <<>> => feat[Len(feat)].target_temp = Null)
    /\ clean = SelectSeq(feat, NoFieldNull)

\* C6: in the FeatureFrame the target_temp of row i is the temperature of
\* row i+1 and the last row's target_temp is null; the TrainableFrame is
\* exactly the FeatureFrame rows with no null among temperature, humidity,
\* wind_speed and target_temp.
C6_TargetAndDropNa ==
    /\ (PEngineered => TargetPost(pFeat, pClean))
    /\ (TPrepared => TargetPost(tFeat, tClean))

C6_Witness ==
    /\ pc = "engineered" /\ Len(pFeat) >= 3
    /\ pFeat[1].target_temp # Null /\ pFeat[1].humidity = Null
    /\ pFeat[2].wind_speed = Null
    /\ Len(pClean) = 1

\* C7: for frames engineered from a non-empty input, with a non-empty
\* TrainableFrame and a completely written artifact, predict returns ok, current_temp
\* is the temperature of the last FeatureFrame row, the model is evaluated
\* on that row's (temperature, hour, humidity), and that row is not in the
\* TrainableFrame.
C7_PredictsFromLatestRow ==
    (PReturned /\ pRaw # <<>> /\ pClean # <<>> /\ pSeen = "complete") =>
        /\ Status = "ok"
        /\ pResult.current_temp # Null
        /\ pResult.current_temp = Tail1(pFeat).temperature
        /\ pResult.predicted_temp # Null
        /\ Val(pResult.predicted_temp).x = Features(Tail1(pFeat))
        /\ Tail1(pFeat) \notin Rows(pClean)

\* C8: from a store with no artifact, as long as every train call was given
\* at most 2 rows no artifact has been written, and predict on frames whose
\* TrainableFrame has 1 or 2 rows returns no_model.
C8_NoArtifactWithoutEnoughRows ==
    ~tEverEnough =>
        /\ artifact = Absent
        /\ (PReturned /\ Len(pClean) \in {1, 2} => Status = "no_model")

C8_Witness ==
    /\ ~tEverEnough /\ tc = "insufficient" /\ Len(tClean) = 2
    /\ PReturned /\ Len(pClean) = 2 /\ Status = "no_model"

\* C9: when the inference query fails, load_latest_data returns an empty
\* frame, engineer_features returns two empty frames and predict returns
\* no_data with no temperatures; nothing is raised, with or without an
\* artifact.
C9_QueryFaultGivesNoData ==
    pFault # "none" =>
        /\ pRaw = <<>>
        /\ Status # "raised"
        /\ (PEngineered => pFeat = <<>> /\ pClean = <<>>)
        /\ (PReturned => Status = "no_data" /\ TempsAbsent)

C9_Witness ==
    /\ pFault = "unreachable" /\ PReturned /\ Status = "no_data"
    /\ artifact.state = "complete"

\* C10: a store read that fails, on the inference path and on the training
\* path alike, gives an empty result and raises nothing to the caller.
C10_ReadsDegradeToEmpty ==
    /\ (pFault # "none" => pRaw = <<>> /\ Status # "raised")
    /\ (tFault # "none" => tc # "raised" /\ tFeat = <<>> /\ tClean = <<>>)

\* C14: a train call that returns a model makes exactly one write of the
\* artifact slot; one that returns InsufficientData makes none and leaves
\* the artifact as it was; either way the frames it was given are, after the
\* call, still the frames _load_and_prepare produced.
C14_OneWritePerModel ==
    [][ /\ (TIdle /\ tc' \in {"insufficient", "dumping"}) =>
              /\ (Len(tClean') <= 2 =>
                     tc' = "insufficient" /\ tWrites' = 0 /\ artifact' = artifact)
              /\ (Len(tClean') >= 3 => tc' = "dumping" /\ tWrites' = 1)
              /\ tFeat' = AddFeatures(tRaw')
              /\ tClean' = SelectSeq(tFeat', NoFieldNull)
        /\ (tc = "dumping" /\ tc' = "trained") =>
              /\ tWrites' = 1
              /\ artifact' = Complete(Fit(tClean))
              /\ tFeat' = tFeat /\ tClean' = tClean
      ]_vars

C14_Witness ==
    /\ tc = "insufficient" /\ tWrites = 0 /\ Len(tClean) >= 1
    /\ artifact.state = "complete" /\ tLast.ok

\* C15: there is one artifact slot: once no train call is running, a load
\* gives the model of the most recent train call that returned one, and
\* absent only if none ever did; every load made by predict returns the
\* artifact or absent; and a predict that begins after a train call has
\* returned a model, with a non-empty TrainableFrame, does not return
\* no_model.
C15_LatestModelLoaded ==
    /\ (tc # "dumping" =>
            artifact = IF tLast.ok THEN Complete(tLast.model) ELSE Absent)
    /\ pSeen # "partial"
    /\ (PReturned /\ pAfterTrained /\ pClean # <<>> => Status # "no_model")

MostRecent(limit) ==
    SubSeq(store, IF Len(store) > limit THEN Len(store) - limit + 1 ELSE 1, Len(store))

\* C17: every store read with limit N, on the inference path and on the
\* training path, returns the N most recent readings (all of them when the
\* store holds fewer) in ascending timestamp order, so the last row given
\* to the feature engineering is the newest reading of the store.
C17_ReadsMostRecent ==
    /\ (pc # "idle" /\ pFault = "none" =>
            /\ pRaw = MostRecent(pLimit)
            /\ (pFeat # <<>> => Tail1(pFeat).timestamp = Tail1(store).timestamp))
    /\ (TPrepared /\ tFault = "none" =>
            /\ tRaw = MostRecent(tLimit)
            /\ (tFeat # <<>> => Tail1(tFeat).timestamp = Tail1(store).timestamp))

----------------------------------------------------------------------------
(* Ingestion claims, under SpecIngest *)

SFailed == sFetch # "ok" \/ sAppend = "failed"

\* C11: a single-shot ingestion invocation performs at most one fetch and at
\* most one append, the append only after a successful fetch; once it has
\* exited its status is 0 exactly when the append completed, and a fetch or
\* append failure gives a nonzero status without a second attempt.
C11_SingleShotExit ==
    /\ sFetches <= 1
    /\ sAppends <= 1
    /\ (sAppends = 1 => sFetches = 1 /\ sFetch = "ok")
    /\ (sp = "exited" =>
           /\ sExit # Null
           /\ (Val(sExit) = 0 <=> sAppends = 1 /\ sAppend = "ok")
           /\ (SFailed => Val(sExit) # 0)
           /\ (sFetch # "ok" => sAppends = 0 /\ sRow = Null)
           /\ (sAppend = "failed" => sRow = Null))

C11_Witness ==
    /\ sp = "exited"
    /\ sFetch = "ok"
    /\ sAppend = "failed"
    /\ sExit = Some(1)

C11_WitnessSuccess ==
    /\ sp = "exited"
    /\ sAppend = "ok"
    /\ sExit = Some(0)
    /\ store # <<>>

\* One cycle of the loop has run to its end, or to where it stays.
LCycleOver == lp \in {"slept", "exited", "hung"}

\* C16: for the same fetch outcome, the same fetched conditions and the same
\* append outcome, the single-shot invocation and one cycle of the loop
\* append the same row or both nothing, and on a failure both end with the
\* same exit status.
C16_SameFetchAppendLogic ==
    (/\ sp = "exited"
     /\ LCycleOver
     /\ sFetch = lFetch
     /\ sData = lData
     /\ sAppend = lAppend) =>
        /\ sRow = lRow
        /\ (SFailed => lp = "exited" /\ lExit = sExit)

----------------------------------------------------------------------------
(* Configuration claims, under SpecConfig *)

\* The file the object was built from sets this leaf.
FileSets(content, sec, leaf) == content.kind = "json" /\ <<sec, leaf>> \in content.leaves

\* The environment variable that overrides this leaf, if there is one.
EnvVarOf(sec, leaf) ==
    IF <<sec, leaf>> = <<"gcp", "project_id">> THEN Some("GCP_PROJECT_ID")
    ELSE IF <<sec, leaf>> = <<"gcp", "dataset_id">> THEN Some("BIGQUERY_DATASET")
    ELSE Null

\* The leaf has an override that is set (to a value that is not empty).
Overridden(env, sec, leaf) ==
    EnvVarOf(sec, leaf) # Null /\ Truthy(env[Val(EnvVarOf(sec, leaf))])

GetConfigBuilds == cBuilds' = cBuilds + 1

\* C12: in the object a get_config call builds, a leaf whose override is set
\* holds the override's value, and every other leaf (siblings in the same
\* section, leaves of other sections) holds the file's value when the file
\* sets it and the built-in default otherwise; the object has exactly the
\* sections and leaves of the defaults.
C12_OverrideReplacesOnlyItsLeaf ==
    [][GetConfigBuilds =>
         LET built == Val(config_instance')
             content == files[built.config_file]
         IN  /\ DOMAIN built.config = Sections
             /\ \A sec \in Sections :
                  /\ built.config[sec].dict
                  /\ DOMAIN built.config[sec].items = LeavesOf(sec)
                  /\ \A leaf \in LeavesOf(sec) :
                       Get(built.config, sec, leaf) =
                          IF Overridden(environ, sec, leaf) THEN "env"
                          ELSE IF FileSets(content, sec, leaf) THEN "file"
                          ELSE "default"
      ]_vars

\* An object built with one override set, from a file that sets only the
\* sibling of the overridden leaf: the three leaves come from three layers.
C12_Witness ==
    /\ config_instance # Null
    /\ Get(Val(config_instance).config, "gcp", "project_id") = "file"
    /\ Get(Val(config_instance).config, "gcp", "dataset_id") = "env"
    /\ Get(Val(config_instance).config, "api", "timeout") = "default"

\* C13: once get_config has returned, one Config object has been built, every
\* later get_config call returns that object, and the object and every value
\* read from it stay as they were when it was first returned, whatever the
\* environment and the files have become.
C13_BuiltOnce ==
    cFirst # Null =>
        /\ cBuilds = 1
        /\ config_instance = cFirst
        /\ cReturned = cFirst
        /\ (cRead # Null =>
               Val(cRead).value =
                  Get(Val(cFirst).config, Val(cRead).section, Val(cRead).leaf))

\* After the first call the override and the file the object was built from
\* have changed, get_config was called again and a leaf was read.
C13_Witness ==
    /\ cFirst # Null
    /\ cRead # Null
    /\ Val(cRead).section = "gcp" /\ Val(cRead).leaf = "project_id"
    /\ Val(cRead).value = "default"
    /\ Truthy(environ["GCP_PROJECT_ID"])
    /\ files[Val(cFirst).config_file] = FileJson(LeafPaths)

====
